---------------------------- MODULE Spec2Model ----------------------------
(***************************************************************************)
(* Model of src/main.py: charged particles integrated with Euler / RK4     *)
(* steppers under constant electric, magnetic and gravitational fields,    *)
(* driven by main(particles, t, dt, integrator).                           *)
(*                                                                         *)
(* Numbers.  The program computes with IEEE doubles.  The model computes   *)
(* with exact rationals <<num, den>> (den > 0, lowest terms), so rounding  *)
(* is not modelled.  To keep numerators and denominators inside TLC's      *)
(* 32-bit integers the physical magnitudes are scaled to small values:     *)
(* the elementary charge e and the electron mass me are the units of       *)
(* charge and mass, and the non-zero field alternatives of lines 13-24     *)
(* (1 N/C, 1e-10 T, 9.8 m/s^2) have unit magnitude in their own direction. *)
(* Python numbers q, m, t, dt are Python scalars: x / 0 raises             *)
(* ZeroDivisionError.                                                      *)
(***************************************************************************)
EXTENDS Integers, Sequences, FiniteSets

VARIABLES
    fields,       \* the module-level field functions E, B, g (lines 12-24)
    particles,    \* the list handed to main: records [q, m, rs, vs]
    particles0,   \* the particles as constructed (lines 211-213), never changed
    t,            \* main's argument t (total time), a rational
    dt,           \* main's argument dt (timestep), a rational
    integrator,   \* main's argument integrator, a string
    pc,           \* where main is: "start", "loop", "plot", "done", "raised"
    n,            \* main's local n (line 185); 0 until assigned
    i,            \* outer loop index (line 188): timesteps completed so far
    j,            \* inner loop position (line 193): 1-based index of the next particle
    err,          \* the exception that left main, "" when none
    calls,        \* log of integrator invocations, in order
    plotted       \* TRUE once plotResults has been called (line 200)

vars == <<fields, particles, particles0, t, dt, integrator, pc, n, i, j, err, calls, plotted>>

(***************************************************************************)
(* Bounds of the model.                                                    *)
(***************************************************************************)
MaxParticles == 2
MaxT == 3

(***************************************************************************)
(* Exact rational arithmetic standing for Python / numpy float arithmetic. *)
(***************************************************************************)
Abs(x) == IF x < 0 THEN -x ELSE x

RECURSIVE GCD(_, _)
GCD(x, y) == IF y = 0 THEN x ELSE GCD(y, x % y)

\* The rational num/den in lowest terms with a positive denominator (den # 0).
Rat(num, den) ==
    LET g0 == GCD(Abs(num), Abs(den))
        s0 == IF den < 0 THEN -1 ELSE 1
    IN  <<s0 * (num \div g0), s0 * (den \div g0)>>

Int2Rat(k) == <<k, 1>>

RZero == Int2Rat(0)

\* x + y
RAdd(x, y) ==
    LET g0 == GCD(x[2], y[2])
    IN  Rat(x[1] * (y[2] \div g0) + y[1] * (x[2] \div g0), (x[2] \div g0) * y[2])

\* -x
RNeg(x) == <<-x[1], x[2]>>

\* x - y
RSub(x, y) == RAdd(x, RNeg(y))

\* x * y
RMul(x, y) ==
    LET g1 == GCD(Abs(x[1]), y[2])
        g2 == GCD(Abs(y[1]), x[2])
    IN  Rat((x[1] \div g1) * (y[1] \div g2), (x[2] \div g2) * (y[2] \div g1))

\* Python's true division x / y of two scalars; the caller guards y # 0
\* (Python raises ZeroDivisionError there).
PyDiv(x, y) == RMul(x, Rat(y[2], y[1]))

\* Python's int() of a float mutated to round away from zero (a ceiling for
\* positive values).
PyIntCeil(x) ==
    IF x[1] >= 0 THEN (x[1] + x[2] - 1) \div x[2] ELSE -(((-x[1]) + x[2] - 1) \div x[2])

\* Python's int() of a float: truncation toward zero.
PyInt(x) ==
    IF x[1] >= 0 THEN x[1] \div x[2] ELSE -((-x[1]) \div x[2])

(***************************************************************************)
(* numpy 3-vectors: <<x, y, z>> of rationals.                              *)
(***************************************************************************)
Vec(x, y, z) == <<Int2Rat(x), Int2Rat(y), Int2Rat(z)>>

VZero == Vec(0, 0, 0)

\* u + w
VAdd(u, w) == <<RAdd(u[1], w[1]), RAdd(u[2], w[2]), RAdd(u[3], w[3])>>

\* s * u  (scalar times array, either order in the source)
VScale(s, u) == <<RMul(s, u[1]), RMul(s, u[2]), RMul(s, u[3])>>

\* u / s  (array divided by a non-zero scalar)
VDiv(u, s) == <<PyDiv(u[1], s), PyDiv(u[2], s), PyDiv(u[3], s)>>

\* np.cross(u, w)
Cross(u, w) ==
    <<RSub(RMul(u[2], w[3]), RMul(u[3], w[2])),
      RSub(RMul(u[3], w[1]), RMul(u[1], w[3])),
      RSub(RMul(u[1], w[2]), RMul(u[2], w[1]))>>

(***************************************************************************)
(* Field evaluators and the acceleration (lines 12-28).  Each field        *)
(* function ignores its position argument and returns a constant; the      *)
(* source holds two alternatives for each, one of them commented out.      *)
(***************************************************************************)
EChoices == {VZero, Vec(1, 0, 0)}
BChoices == {VZero, Vec(0, 1, 0)}
gChoices == {VZero, Vec(0, 0, -1)}

E(r) == fields.E

B(r) == fields.B

g(r) == fields.g

\* The acceleration with the magnetic term's cross product dropped.
aNoCross(qByM, r, v) == VAdd(VScale(qByM, VAdd(E(r), VAdd(v, B(r)))), g(r))

\* qByM*(E(r) + np.cross(v, B(r))) + g(r)
a(qByM, r, v) == VAdd(VScale(qByM, VAdd(E(r), Cross(v, B(r)))), g(r))


(***************************************************************************)
(* Particle (lines 59-120).  A particle is a record [q, m, rs, vs]: charge *)
(* and mass as integers (in units of e and me), rs and vs the position and *)
(* velocity histories, sequences of 3-vectors.                             *)
(***************************************************************************)
\* Particle.__init__(q, m, rs, vs) with length-1 histories.
Particle(q, m, r0, v0) == [q |-> q, m |-> m, rs |-> <<r0>>, vs |-> <<v0>>]

\* hist[-1]
Last(hist) == hist[Len(hist)]

\* An append that overwrites the newest row instead of adding one.
npAppendOverwrite(hist, x) == [hist EXCEPT ![Len(hist)] = x]

\* An append that puts the new row in front.
npAppendFront(hist, x) == <<x>> \o hist

\* np.append(hist, np.array([x]), axis=0): a new array, hist followed by x.
npAppend(hist, x) == Append(hist, x)

\* self.q/self.m for a particle with m # 0.
QByM(p) == PyDiv(Int2Rat(p.q), Int2Rat(p.m))

\* Forward Euler for the position as well (line 85 without line 86).
updateEulerNaive(p, h) ==
    LET ri == Last(p.rs)
        vi == Last(p.vs)
        qByM == QByM(p)
        vf == VAdd(vi, VScale(h, a(qByM, ri, vi)))
        rf == VAdd(ri, VScale(h, vi))
    IN  [p EXCEPT !.vs = npAppend(p.vs, vf), !.rs = npAppend(p.rs, rf)]

\* Particle.updateEuler(dt) on a particle with m # 0: the particle afterwards.
updateEuler(p, h) ==
    LET ri == Last(p.rs)
        vi == Last(p.vs)
        qByM == QByM(p)
        vf == VAdd(vi, VScale(h, a(qByM, ri, vi)))
        vs1 == npAppend(p.vs, vf)
        rf == VAdd(ri, VScale(h, VDiv(VAdd(vi, vf), Int2Rat(2))))
        rs1 == npAppend(p.rs, rf)
    IN  [p EXCEPT !.vs = vs1, !.rs = rs1]

\* RK4 with each stage's acceleration taken at that stage's own velocity
\* estimate (k2r, k3r, k4r) instead of the previous stage's.
updateRK4OwnStage(p, h) ==
    LET ri == Last(p.rs)
        vi == Last(p.vs)
        qByM == QByM(p)
        h2 == PyDiv(h, Int2Rat(2))
        h6 == PyDiv(h, Int2Rat(6))
        two == Int2Rat(2)
        k1v == a(qByM, ri, vi)
        k1r == vi
        k2r == VAdd(vi, VScale(h2, k1v))
        k2v == a(qByM, VAdd(ri, VScale(h2, k1r)), k2r)
        k3r == VAdd(vi, VScale(h2, k2v))
        k3v == a(qByM, VAdd(ri, VScale(h2, k2r)), k3r)
        k4r == VAdd(vi, VScale(h, k3v))
        k4v == a(qByM, VAdd(ri, VScale(h, k3r)), k4r)
        vf == VAdd(vi, VScale(h6, VAdd(VAdd(VAdd(k1v, VScale(two, k2v)), VScale(two, k3v)), k4v)))
        rf == VAdd(ri, VScale(h6, VAdd(VAdd(VAdd(k1r, VScale(two, k2r)), VScale(two, k3r)), k4r)))
    IN  [p EXCEPT !.vs = npAppend(p.vs, vf), !.rs = npAppend(p.rs, rf)]

\* Particle.updateRK4(dt) on a particle with m # 0: the particle afterwards.
updateRK4(p, h) ==
    LET ri == Last(p.rs)
        vi == Last(p.vs)
        qByM == QByM(p)
        h2 == PyDiv(h, Int2Rat(2))
        h6 == PyDiv(h, Int2Rat(6))
        two == Int2Rat(2)
        k1v == a(qByM, ri, vi)
        k1r == vi
        k2v == a(qByM, VAdd(ri, VScale(h2, k1r)), k1r)
        k2r == VAdd(vi, VScale(h2, k1v))
        k3v == a(qByM, VAdd(ri, VScale(h2, k2r)), k2r)
        k3r == VAdd(vi, VScale(h2, k2v))
        k4v == a(qByM, VAdd(ri, VScale(h, k3r)), k3r)
        k4r == VAdd(vi, VScale(h, k3v))
        vf == VAdd(vi, VScale(h6, VAdd(VAdd(VAdd(k1v, VScale(two, k2v)), VScale(two, k3v)), k4v)))
        vs1 == npAppend(p.vs, vf)
        rf == VAdd(ri, VScale(h6, VAdd(VAdd(VAdd(k1r, VScale(two, k2r)), VScale(two, k3r)), k4r)))
        rs1 == npAppend(p.rs, rf)
    IN  [p EXCEPT !.vs = vs1, !.rs = rs1]

\* An attribute store that lands in histories shared by every particle
\* (as class-level rs / vs attributes would be).
StoreShared(ps, k, p) ==
    [x \in DOMAIN ps |-> IF x = k THEN p ELSE [ps[x] EXCEPT !.rs = p.rs, !.vs = p.vs]]

\* self.vs = ... ; self.rs = ... on the k-th particle of the list: only that
\* object's attributes are rebound.
StoreParticle(ps, k, p) == [ps EXCEPT ![k] = p]

(***************************************************************************)
(* The inputs of a run.                                                    *)
(***************************************************************************)
\* The three particles of lines 211-213 (charge -e, e, -e; mass me, 2me,
\* 3me; initial velocities scaled from (10, 1, 0) to (2, 1, 0)), and a
\* particle of mass 0.
Catalog ==
    { Particle(-1, 1, Vec(0, 0, 0), Vec(2, 1, 0)),
      Particle(1, 2, Vec(-1, 0, 0), Vec(2, 1, 0)),
      Particle(-1, 3, Vec(0, -1, 0), Vec(-2, -1, 0)),
      Particle(1, 0, Vec(0, 0, 0), Vec(1, 0, 0)) }

\* Lists of up to MaxParticles distinct catalog particles.
ParticleLists ==
    UNION { { ps \in [1..len -> Catalog] : \A x, y \in 1..len : x # y => ps[x] # ps[y] }
            : len \in 0..MaxParticles }

Times == { Int2Rat(k) : k \in -1..MaxT }

Timesteps == { Int2Rat(0), Int2Rat(1), Int2Rat(2), Int2Rat(-1) }

Integrators == { "euler", "RK4", "leapfrog" }

FieldChoices == [E : EChoices, B : BChoices, g : gChoices]

Init ==
    /\ fields \in FieldChoices
    /\ particles \in ParticleLists
    /\ particles0 = particles
    /\ t \in Times
    /\ dt \in Timesteps
    /\ integrator \in Integrators
    /\ pc = "start"
    /\ n = 0
    /\ i = 0
    /\ j = 1
    /\ err = ""
    /\ calls = <<>>
    /\ plotted = FALSE

(***************************************************************************)
(* main (lines 182-200).                                                   *)
(***************************************************************************)
\* The loop position reached once `done` timesteps are complete and the
\* inner loop is about to start again: more work, or the loops are over.
AfterTimestep(cnt, done) ==
    IF done < cnt /\ Len(particles) > 0 THEN "loop" ELSE "plot"

\* Line 185 without the division's exception: dt = 0 gives n = 0.
MainStartNoRaise ==
    /\ pc = "start"
    /\ n' = IF dt = RZero THEN 0 ELSE PyInt(PyDiv(t, dt))
    /\ i' = IF Len(particles) > 0 \/ n' <= 0 THEN 0 ELSE n'
    /\ pc' = AfterTimestep(n', 0)
    /\ UNCHANGED <<fields, particles, particles0, t, dt, integrator, j, err, calls, plotted>>

\* Line 185, n = int(t/dt), and lines 188-193 up to the first particle
\* update: t/dt raises ZeroDivisionError when dt = 0; range(n) is empty when
\* n <= 0; an empty particle list makes every timestep a no-op.
MainStart ==
    /\ pc = "start"
    /\ IF dt = RZero
       THEN /\ pc' = "raised"
            /\ err' = "ZeroDivisionError"
            /\ UNCHANGED <<n, i>>
       ELSE /\ n' = PyInt(PyDiv(t, dt))
            /\ i' = IF Len(particles) > 0 \/ n' <= 0 THEN 0 ELSE n'
            /\ pc' = AfterTimestep(n', 0)
            /\ err' = err
    /\ UNCHANGED <<fields, particles, particles0, t, dt, integrator, j, calls, plotted>>

\* The integrator choice with the test turned around: anything but "euler"
\* selects RK4.
UsesRK4Inverted(kind) == kind # "euler"

\* Line 194: integrator == 'RK4'.
UsesRK4(kind) == kind = "RK4"

\* Lines 193-197 for the particle at position j of timestep i, integrator
\* `kind` with stepper `step`: the call is logged; self.q/self.m raises
\* ZeroDivisionError for m = 0 before anything is appended (lines 78, 99);
\* otherwise the particle is updated and the loops advance.
MainStep(kind, stepped) ==
    /\ calls' = Append(calls, [step |-> i, idx |-> j, kind |-> kind])
    /\ IF particles[j].m = 0
       THEN /\ pc' = "raised"
            /\ err' = "ZeroDivisionError"
            /\ UNCHANGED <<particles, i, j>>
       ELSE /\ particles' = StoreParticle(particles, j, stepped)
            /\ err' = err
            /\ IF j < Len(particles)
               THEN /\ j' = j + 1
                    /\ UNCHANGED <<i, pc>>
               ELSE /\ j' = 1
                    /\ i' = i + 1
                    /\ pc' = AfterTimestep(n, i + 1)
    /\ UNCHANGED <<fields, particles0, t, dt, integrator, n, plotted>>

\* Line 197: particle.updateEuler(dt).
MainStepEuler ==
    /\ pc = "loop"
    /\ ~UsesRK4(integrator)
    /\ MainStep("euler", IF particles[j].m = 0 THEN particles[j] ELSE updateEuler(particles[j], dt))

\* Line 195: particle.updateRK4(dt).
MainStepRK4 ==
    /\ pc = "loop"
    /\ UsesRK4(integrator)
    /\ MainStep("RK4", IF particles[j].m = 0 THEN particles[j] ELSE updateRK4(particles[j], dt))

\* Line 200: plotResults(particles), which only reads the histories.
MainPlot ==
    /\ pc = "plot"
    /\ plotted' = TRUE
    /\ pc' = "done"
    /\ UNCHANGED <<fields, particles, particles0, t, dt, integrator, n, i, j, err, calls>>

Next == MainStart \/ MainStepEuler \/ MainStepRK4 \/ MainPlot

Spec == Init /\ [][Next]_vars

(***************************************************************************)
(* The Particle class used directly (lines 59-120): a caller other than    *)
(* main holds one particle and calls updateEuler and updateRK4 on it in    *)
(* any order, each call with a timestep of its own, until MaxCalls calls   *)
(* are made or a call raises.  dt holds the timestep of the latest call.   *)
(***************************************************************************)
MaxCalls == 3

CallTimesteps == { Int2Rat(0), Int2Rat(1), Int2Rat(-1) }

InitCalls ==
    /\ fields \in FieldChoices
    /\ particles \in { <<p>> : p \in Catalog }
    /\ particles0 = particles
    /\ t = RZero
    /\ dt = RZero
    /\ integrator = ""
    /\ pc = "script"
    /\ n = 0
    /\ i = 0
    /\ j = 1
    /\ err = ""
    /\ calls = <<>>
    /\ plotted = FALSE

\* One call particles[k].update<kind>(h): logged; self.q/self.m raises
\* ZeroDivisionError for m = 0 before anything is appended (lines 78, 99).
Call(kind, k, h, stepped) ==
    /\ calls' = Append(calls, [step |-> Len(calls), idx |-> k, kind |-> kind])
    /\ dt' = h
    /\ IF particles[k].m = 0
       THEN /\ pc' = "raised"
            /\ err' = "ZeroDivisionError"
            /\ UNCHANGED particles
       ELSE /\ particles' = StoreParticle(particles, k, stepped)
            /\ UNCHANGED <<pc, err>>
    /\ UNCHANGED <<fields, particles0, t, integrator, n, i, j, plotted>>

\* particle.updateEuler(h), lines 69-87.
CallEuler ==
    /\ pc = "script"
    /\ Len(calls) < MaxCalls
    /\ \E k \in DOMAIN particles : \E h \in CallTimesteps :
          Call("euler", k, h,
               IF particles[k].m = 0 THEN particles[k] ELSE updateEuler(particles[k], h))

\* particle.updateRK4(h), lines 90-120.
CallRK4 ==
    /\ pc = "script"
    /\ Len(calls) < MaxCalls
    /\ \E k \in DOMAIN particles : \E h \in CallTimesteps :
          Call("RK4", k, h,
               IF particles[k].m = 0 THEN particles[k] ELSE updateRK4(particles[k], h))

NextCalls == CallEuler \/ CallRK4

SpecCalls == InitCalls /\ [][NextCalls]_vars

(***************************************************************************)
(* Helpers of the properties.                                              *)
(***************************************************************************)
IsPrefix(s1, s2) == Len(s1) <= Len(s2) /\ SubSeq(s2, 1, Len(s1)) = s1

\* The particle p as it was when its histories had `len` rows.
StateAt(p, len) == [p EXCEPT !.rs = SubSeq(p.rs, 1, len), !.vs = SubSeq(p.vs, 1, len)]

\* Integrator calls on the k-th particle that returned normally.
Completed(k) ==
    Cardinality({ c \in 1..Len(calls) : calls[c].idx = k })
      - (IF pc = "raised" /\ calls # <<>> /\ calls[Len(calls)].idx = k THEN 1 ELSE 0)

HasZeroMass == \E k \in DOMAIN particles : particles[k].m = 0

ZeroFields == fields.E = VZero /\ fields.B = VZero /\ fields.g = VZero

\* floor of a rational in lowest terms
Floor(x) == x[1] \div x[2]

Max0(k) == IF k > 0 THEN k ELSE 0

(***************************************************************************)
(* C1.  A particle created with length-1 histories always has position and *)
(* velocity histories of equal length; every integrator call that returns  *)
(* grows both by exactly one row; after k completed calls on a particle    *)
(* both lengths are k + 1, and when all n timesteps of a run are done both *)
(* are n + 1.                                                              *)
(***************************************************************************)
C1_LengthsNow ==
    \A k \in DOMAIN particles :
        /\ Len(particles[k].rs) = Len(particles[k].vs)
        /\ Len(particles[k].rs) = Completed(k) + 1
        /\ pc \in {"plot", "done"} => Len(particles[k].rs) = Max0(n) + 1

C1_GrowByOne ==
    \A k \in DOMAIN particles :
        (calls' # calls /\ calls'[Len(calls')].idx = k /\ pc' # "raised")
            => /\ Len(particles'[k].rs) = Len(particles[k].rs) + 1
               /\ Len(particles'[k].vs) = Len(particles[k].vs) + 1

C1_HistoryLengths == [](C1_LengthsNow) /\ [][C1_GrowByOne]_vars

C1_Witness ==
    /\ pc = "done"
    /\ \E k \in DOMAIN particles : Len(particles[k].rs) >= 3 /\ Len(particles[k].vs) >= 3

(***************************************************************************)
(* C2.  With a particle of mass 0 in the list, no position or velocity     *)
(* history ever grows beyond its initial length (the error comes before    *)
(* any integration step).                                                  *)
(***************************************************************************)
C2_FailFast ==
    HasZeroMass =>
        \A k \in DOMAIN particles : Len(particles[k].rs) = 1 /\ Len(particles[k].vs) = 1

(***************************************************************************)
(* C3.  A run with dt = 0 ends at once with an error: no integrator is     *)
(* invoked, every particle is as it was constructed, plotResults is not    *)
(* reached.                                                                *)
(***************************************************************************)
C3_ZeroDtRaises ==
    (dt = RZero /\ pc # "start") =>
        /\ pc = "raised"
        /\ err # ""
        /\ calls = <<>>
        /\ particles = particles0
        /\ ~plotted

C3_Witness == dt = RZero /\ pc = "raised" /\ Len(particles) >= 1 /\ t # RZero

(***************************************************************************)
(* C4.  For dt # 0 the run makes max(0, floor(t/dt)) timesteps, each       *)
(* invoking the integrator once per particle in list order, all particles  *)
(* of a timestep before any of the next, and ends after n * len(particles) *)
(* invocations.  C4_Original states it for any particle list;              *)
(* C4_StepSchedule for lists without a particle of mass 0.                 *)
(***************************************************************************)
C4_Schedule ==
    LET cnt == Max0(Floor(PyDiv(t, dt)))
        len == Len(particles)
        total == cnt * len
    IN  /\ pc # "raised"
        /\ Len(calls) <= total
        /\ \A c \in 1..Len(calls) :
              /\ calls[c].step = (c - 1) \div len
              /\ calls[c].idx = ((c - 1) % len) + 1
        /\ pc = "loop" => Len(calls) < total
        /\ pc \in {"plot", "done"} => Len(calls) = total

C4_Original == (dt # RZero /\ pc # "start") => C4_Schedule

C4_StepSchedule == (dt # RZero /\ ~HasZeroMass /\ pc # "start") => C4_Schedule

C4_Witness ==
    /\ pc = "done"
    /\ ~HasZeroMass
    /\ Len(particles) = 2
    /\ Len(calls) >= 4

(***************************************************************************)
(* C5.  integrator = "RK4" makes every particle update an updateRK4, any   *)
(* other value makes every update an updateEuler, for the whole run: each  *)
(* logged call is of that kind, and each row of each history is what that  *)
(* stepper makes of the row before it.                                     *)
(***************************************************************************)
C5_IntegratorSelection ==
    /\ \A c \in 1..Len(calls) :
          calls[c].kind = (IF integrator = "RK4" THEN "RK4" ELSE "euler")
    /\ \A k \in DOMAIN particles : \A len \in 1..(Len(particles[k].rs) - 1) :
          StateAt(particles[k], len + 1) =
              (IF integrator = "RK4"
               THEN updateRK4(StateAt(particles[k], len), dt)
               ELSE updateEuler(StateAt(particles[k], len), dt))

C5_Witness ==
    /\ integrator = "leapfrog"
    /\ pc = "done"
    /\ Len(calls) >= 2
    /\ fields.B # VZero

(***************************************************************************)
(* C6.  With the electric, magnetic and gravitational fields all zero,     *)
(* every row of a velocity history is the initial velocity and row number  *)
(* k+1 of a position history is r_0 + v_0 * k * dt, for both integrators.  *)
(***************************************************************************)
C6_StraightLine ==
    ZeroFields =>
        \A k \in DOMAIN particles :
            LET r0 == particles0[k].rs[1]
                v0 == particles0[k].vs[1]
            IN  /\ \A x \in DOMAIN particles[k].vs : particles[k].vs[x] = v0
                /\ \A x \in DOMAIN particles[k].rs :
                      particles[k].rs[x] = VAdd(r0, VScale(RMul(Int2Rat(x - 1), dt), v0))

C6_Witness ==
    /\ ZeroFields
    /\ integrator = "RK4"
    /\ \E k \in DOMAIN particles :
          Len(particles[k].rs) >= 3 /\ particles[k].rs[3] # particles[k].rs[1]

(***************************************************************************)
(* C7.  Histories are append-only.  Under any sequence of updateEuler and  *)
(* updateRK4 calls on a particle, each call leaves every history a prefix  *)
(* of what it becomes (row i stays the state the i-th call produced) and   *)
(* leaves charge and mass alone; row 1 is always the initial condition.    *)
(***************************************************************************)
C7_KeepsRows ==
    /\ DOMAIN particles' = DOMAIN particles
    /\ \A k \in DOMAIN particles :
          /\ IsPrefix(particles[k].rs, particles'[k].rs)
          /\ IsPrefix(particles[k].vs, particles'[k].vs)
          /\ particles'[k].q = particles[k].q
          /\ particles'[k].m = particles[k].m

C7_InitialRow ==
    /\ DOMAIN particles = DOMAIN particles0
    /\ \A k \in DOMAIN particles :
          /\ particles[k].rs[1] = particles0[k].rs[1]
          /\ particles[k].vs[1] = particles0[k].vs[1]
          /\ particles[k].q = particles0[k].q
          /\ particles[k].m = particles0[k].m

C7_AppendOnly == [](C7_InitialRow) /\ [][C7_KeepsRows]_vars

\* Three calls of both kinds made, every one of them having changed the
\* position and the velocity.
C7_Witness ==
    /\ Len(calls) = 3
    /\ \E c \in 1..3 : calls[c].kind = "euler"
    /\ \E c \in 1..3 : calls[c].kind = "RK4"
    /\ \E k \in DOMAIN particles :
          /\ Len(particles[k].rs) = 4
          /\ \A x \in 1..3 :
                /\ particles[k].rs[x + 1] # particles[k].rs[x]
                /\ particles[k].vs[x + 1] # particles[k].vs[x]

(***************************************************************************)
(* C8.  Every row an Euler run appends is v_{i+1} = v_i + a(q/m, r_i, v_i) *)
(* * dt and r_{i+1} = r_i + ((v_i + v_{i+1}) / 2) * dt.                    *)
(***************************************************************************)
C8_EulerStep ==
    integrator # "RK4" =>
        \A k \in DOMAIN particles : \A x \in 1..(Len(particles[k].vs) - 1) :
            LET ri == particles[k].rs[x]
                vi == particles[k].vs[x]
                vn == particles[k].vs[x + 1]
                rn == particles[k].rs[x + 1]
                qm == Rat(particles[k].q, particles[k].m)
            IN  /\ Len(particles[k].rs) = Len(particles[k].vs)
                /\ vn = VAdd(vi, VScale(dt, a(qm, ri, vi)))
                /\ rn = VAdd(ri, VScale(dt, VScale(Rat(1, 2), VAdd(vi, vn))))

\* An Euler row whose position is not the naive r_i + v_i * dt.
C8_Witness ==
    /\ integrator # "RK4"
    /\ \E k \in DOMAIN particles :
          /\ Len(particles[k].rs) >= 2
          /\ particles[k].rs[2] #
                VAdd(particles[k].rs[1], VScale(dt, particles[k].vs[1]))

(***************************************************************************)
(* C9.  Every row an RK4 run appends follows the recurrence                *)
(*   k1r = v_i,               k1v = a(r_i, v_i)                            *)
(*   k2r = v_i + k1v*dt/2,    k2v = a(r_i + k1r*dt/2, k1r)                 *)
(*   k3r = v_i + k2v*dt/2,    k3v = a(r_i + k2r*dt/2, k2r)                 *)
(*   k4r = v_i + k3v*dt,      k4v = a(r_i + k3r*dt, k3r)                   *)
(*   v_{i+1} = v_i + (dt/6)(k1v + 2 k2v + 2 k3v + k4v)                     *)
(*   r_{i+1} = r_i + (dt/6)(k1r + 2 k2r + 2 k3r + k4r)                     *)
(* in which each stage's acceleration takes the previous stage's velocity  *)
(* estimate.                                                               *)
(***************************************************************************)
C9_RK4Step ==
    integrator = "RK4" =>
        \A k \in DOMAIN particles : \A x \in 1..(Len(particles[k].vs) - 1) :
            LET ri == particles[k].rs[x]
                vi == particles[k].vs[x]
                qm == Rat(particles[k].q, particles[k].m)
                half == RMul(dt, Rat(1, 2))
                sixth == RMul(dt, Rat(1, 6))
                k1r == vi
                k1v == a(qm, ri, vi)
                k2r == VAdd(vi, VScale(half, k1v))
                k2v == a(qm, VAdd(ri, VScale(half, k1r)), k1r)
                k3r == VAdd(vi, VScale(half, k2v))
                k3v == a(qm, VAdd(ri, VScale(half, k2r)), k2r)
                k4r == VAdd(vi, VScale(dt, k3v))
                k4v == a(qm, VAdd(ri, VScale(dt, k3r)), k3r)
                sumv == VAdd(VAdd(k1v, k4v), VScale(Int2Rat(2), VAdd(k2v, k3v)))
                sumr == VAdd(VAdd(k1r, k4r), VScale(Int2Rat(2), VAdd(k2r, k3r)))
            IN  /\ Len(particles[k].rs) = Len(particles[k].vs)
                /\ particles[k].vs[x + 1] = VAdd(vi, VScale(sixth, sumv))
                /\ particles[k].rs[x + 1] = VAdd(ri, VScale(sixth, sumr))

\* An RK4 row that differs from the one a scheme evaluating each stage at
\* its own velocity estimate would have appended.
C9_Witness ==
    /\ integrator = "RK4"
    /\ \E k \in DOMAIN particles :
          /\ Len(particles[k].rs) >= 2
          /\ StateAt(particles[k], 2) # updateRK4OwnStage(StateAt(particles[k], 1), dt)

(***************************************************************************)
(* C10.  An integrator call on one particle leaves every other particle of *)
(* the list unchanged, and a particle's histories are at every moment what *)
(* stepping that particle alone from its initial state gives, whatever     *)
(* else is in the list.                                                    *)
(***************************************************************************)
RECURSIVE Alone(_, _)
Alone(p, cnt) ==
    IF cnt = 0 THEN p
    ELSE LET q1 == Alone(p, cnt - 1)
         IN  IF integrator = "RK4" THEN updateRK4(q1, dt) ELSE updateEuler(q1, dt)

C10_OthersUntouched ==
    \A k \in DOMAIN particles :
        (calls' # calls /\ calls'[Len(calls')].idx # k) => particles'[k] = particles[k]

C10_SameAsAlone ==
    \A k \in DOMAIN particles :
        particles[k] = Alone(particles0[k], Len(particles[k].rs) - 1)

============================================================================
